---- MODULE Spec2Model ----
(***************************************************************************)
(* A model of the glslx language server for tagged template literals:      *)
(* the region scanner and the virtual content builder of embeddedSupport,  *)
(* and the build scheduler, cache, include resolver and position router of *)
(* server.ts.                                                              *)
(*                                                                         *)
(* A text is a sequence of one-character strings.  Offsets are 0-based as  *)
(* in the source: the character at offset i of T is T[i + 1].              *)
(***************************************************************************)
EXTENDS Integers, Sequences, FiniteSets, TLC

(***************************************************************************)
(* Bounds of the model.                                                    *)
(***************************************************************************)
\* the scanned texts are concatenations of at most MaxSegs segments
MaxSegs == 6
\* the projected texts have at most MaxProjLen characters
MaxProjLen == 3
\* a burst holds at most MaxBurst change notifications
MaxBurst == 2
\* an include text has at most MaxIncludeSegs segments
MaxIncludeSegs == 2
\* the compiled texts are concatenations of at most MaxFragSegs segments
MaxFragSegs == 8

(***************************************************************************)
(* JavaScript strings.                                                     *)
(***************************************************************************)
\* documentText[i] for an offset outside the string
Undefined == "undefined"

\* what result += undefined appends
UndefinedChars == <<"u", "n", "d", "e", "f", "i", "n", "e", "d">>

\* documentText[i]
CharAt(T, i) == IF i >= 0 /\ i < Len(T) THEN T[i + 1] ELSE Undefined

\* whether the characters of w stand in T from offset p on
HasAt(T, p, w) ==
    /\ p >= 0
    /\ p + Len(w) <= Len(T)
    /\ \A k \in 1..Len(w) : T[p + k] = w[k]

\* String.prototype.lastIndexOf, from an offset on: the last offset >= from
\* holding ch, or -1
lastIndexOf(T, ch, from) ==
    LET hits == {i \in 0..(Len(T) - 1) : i >= from /\ T[i + 1] = ch}
    IN  IF hits = {} THEN -1 ELSE CHOOSE i \in hits : \A j \in hits : j <= i

\* String.prototype.indexOf(ch, from): the first offset >= from holding ch, or -1
indexOf(T, ch, from) ==
    LET hits == {i \in 0..(Len(T) - 1) : i >= from /\ T[i + 1] = ch}
    IN  IF hits = {} THEN -1 ELSE CHOOSE i \in hits : \A j \in hits : i <= j

(***************************************************************************)
(* The region scanner, getGlslxRegions.                                    *)
(***************************************************************************)
\* the delimiter character, the backtick; a TLA+ string cannot hold one, so
\* the model writes it as the value "tick"
Tick == "tick"

\* the three identifier alternatives of tagPattern
WordTags == {<<"g", "l", "s", "l">>, <<"v", "e", "r", "t">>, <<"f", "r", "a", "g">>}

\* the optional space ( ?) of tagPattern at offset p: greedy, and nothing
\* after it can match a space, so it is taken whenever it is there
OptSpace(T, p) == IF CharAt(T, p) = " " THEN 1 ELSE 0

\* length of the match of the alternative \/\* ?glsl ?\*\/ ? at offset p, 0 if none
CommentTagLen(T, p) ==
    IF ~HasAt(T, p, <<"/", "*">>) THEN 0
    ELSE LET p1 == p + 2 + OptSpace(T, p + 2)
         IN  IF ~HasAt(T, p1, <<"g", "l", "s", "l">>) THEN 0
             ELSE LET p2 == p1 + 4 + OptSpace(T, p1 + 4)
                  IN  IF ~HasAt(T, p2, <<"*", "/">>) THEN 0
                      ELSE (p2 + 2 + OptSpace(T, p2 + 2)) - p

\* length of the match of tagPattern anchored at offset p, 0 if none
TagLenAt(T, p) ==
    IF \E w \in WordTags : HasAt(T, p, w) THEN 4 ELSE CommentTagLen(T, p)

\* tagPattern.exec(documentText) with tagPattern.lastIndex = lastIndex:
\* the leftmost match at or after lastIndex, or null
Null == [index |-> -1, length |-> 0]

tagPatternExec(T, lastIndex) ==
    LET hits == {p \in lastIndex..(Len(T) - 1) : TagLenAt(T, p) > 0}
    IN  IF hits = {} THEN Null
        ELSE LET p == CHOOSE q \in hits : \A r \in hits : q <= r
             IN  [index |-> p, length |-> TagLenAt(T, p)]

\* the mutant of findClosingTick that takes the last tick of the text
findLastTick(T, start) == lastIndexOf(T, Tick, start + 1)

\* the search for the closing tick
findClosingTick(T, start) == indexOf(T, Tick, start + 1)

\* the mutant of hasClosingTick that forgets the test
alwaysClosed(end) == TRUE

\* the test that a closing tick was found
hasClosingTick(end) == end > 0

\* the regions after the body of the while loop has run for one match
pushRegion(T, match, regions) ==
    LET tickIdx == match.index + match.length
        start == tickIdx + 1
    IN  IF CharAt(T, tickIdx) # Tick THEN regions
        ELSE LET ends == {findClosingTick(T, start)}
             IN  CHOOSE r \in {IF hasClosingTick(end)
                               THEN Append(regions, [start |-> start, end |-> end])
                               ELSE regions : end \in ends} : TRUE

\* the while loop of getGlslxRegions from tagPattern.lastIndex = lastIndex on.
\* (Each value is computed once and bound, here and below, by drawing it from
\* the set that holds it alone.)
RECURSIVE scanFrom(_, _, _)
scanFrom(T, lastIndex, regions) ==
    CHOOSE r \in
        {IF match = Null THEN regions
         ELSE CHOOSE rest \in
                {scanFrom(T, match.index + match.length, pushed) :
                    pushed \in {pushRegion(T, match, regions)}} : TRUE :
            match \in {tagPatternExec(T, lastIndex)}} : TRUE

getGlslxRegions(documentText) == scanFrom(documentText, 0, <<>>)

\* the regions buildOnce gives a document
regionsOf(languageId, source) ==
    IF languageId = "glslx"
    THEN <<[start |-> 0, end |-> Len(source)]>>
    ELSE getGlslxRegions(source)

(***************************************************************************)
(* The virtual content builder, getVirtualGlslxContent.                    *)
(***************************************************************************)
\* the mutant of mask that blanks line feeds too
maskAll(ch) == " "

\* what a character outside the region becomes
mask(ch) == IF ch = "\n" THEN "\n" ELSE " "

\* result += documentText[i]
copied(T, i) == IF i >= 0 /\ i < Len(T) THEN <<T[i + 1]>> ELSE UndefinedChars

\* for (; i < to; i += 1) result += mask(documentText[i])
RECURSIVE maskLoop(_, _, _, _)
maskLoop(T, i, to, result) ==
    IF i < to THEN maskLoop(T, i + 1, to, Append(result, mask(CharAt(T, i))))
    ELSE result

\* for (; i < to; i += 1) result += documentText[i]
RECURSIVE copyLoop(_, _, _, _)
copyLoop(T, i, to, result) ==
    IF i < to THEN copyLoop(T, i + 1, to, result \o copied(T, i))
    ELSE result

Max(a, b) == IF a >= b THEN a ELSE b

\* the mutant of getVirtualGlslxContent that masks nothing
wholeText(documentText, region) == documentText

\* the builder of the scanner's module: one index i runs through the three loops
getVirtualGlslxContent(documentText, region) ==
    LET i1 == Max(0, region.start)
        r1 == maskLoop(documentText, 0, region.start, <<>>)
        i2 == Max(i1, region.end)
        r2 == copyLoop(documentText, i1, region.end, r1)
    IN  maskLoop(documentText, i2, Len(documentText), r2)

\* the builder of src/embeddedSupport.ts: each loop starts its own index,
\* the second at region.start + 1 and the third at region.end + 1
embeddedSupportVirtualContent(documentText, region) ==
    LET r1 == maskLoop(documentText, 0, region.start, <<>>)
        r2 == copyLoop(documentText, region.start + 1, region.end, r1)
    IN  maskLoop(documentText, region.end + 1, Len(documentText), r2)

(***************************************************************************)
(* The state.                                                              *)
(***************************************************************************)
VARIABLES
    openDocuments,  \* the document store: the open documents, in the order of all()
    buildResults,   \* the accessor: which closure the variable buildResults holds
    timeout,        \* the number of timers set by buildLater that are still to fire
    shown,          \* the diagnostics the client shows for each URI
    lastPass,       \* what the latest run of buildOnce did
    burst,          \* history: the notifications and passes since the burst began
    reply,          \* what the handler that ran last returned to the client
    input,          \* the argument of the scanner or of the builder, when applied alone
    output,         \* its value
    pc              \* whether the pure function has been applied

vars == <<openDocuments, buildResults, timeout, shown, lastPass, burst, reply,
          input, output, pc>>

serverVars == <<openDocuments, buildResults, timeout, shown, lastPass, burst, reply>>

pureVars == <<input, output, pc>>

(***************************************************************************)
(* The documents the client opens.                                         *)
(***************************************************************************)
\* the client opens one JavaScript document and one glslx document
UriJs == "file:///a.js"
UriGlslx == "file:///b.glslx"

Uris == {UriJs, UriGlslx}

\* the languageId the client declares for a document
languageIdOf(uri) == IF uri = UriGlslx THEN "glslx" ELSE "javascript"

\* x
TextPlain == <<"x">>

\* glsl(tick)x(tick)frag(tick);;(tick)
TextTwo == <<"g", "l", "s", "l", Tick, "x", Tick,
             "f", "r", "a", "g", Tick, ";", ";", Tick>>

\* x;
TextShader == <<"x", ";">>

\* the texts the client gives a document
DocTexts(uri) == IF uri = UriGlslx THEN {TextShader, TextPlain} ELSE {TextPlain, TextTwo}

(***************************************************************************)
(* buildOnce and sendDiagnostics.                                          *)
(***************************************************************************)
\* let results = {}
EmptyResults == [u \in {} |-> <<>>]

\* whether the Compiler raises is not known to the server: of the calls of
\* one pass, the call that raises (0: none)
Oracles(calls) == [throwAt : 0..calls]

\* glslx.compileIDE({ name: id, contents }, { fileAccess }), when it returns.
\* The Compiler is a function of the content it is given: in the model it
\* reports one diagnostic when the content holds an x, and none otherwise
compileIDE(id, contents) ==
    [name |-> id, contents |-> contents,
     diagnostics |-> IF \E k \in 1..Len(contents) : contents[k] = "x" THEN 1 ELSE 0]

\* the mutant of regionId that leaves the index out
regionIdOfDocument(uri, i) == uri \o "-region-"

\* const id = (doc.uri)-region-(i), a template literal: the URI, the word
\* -region- and the decimal digits of the index, in one string
regionId(uri, i) == uri \o "-region-" \o ToString(i)

\* glslxDoc.regions.map(...) for one document, when no call raises
compileRegions(doc) ==
    CHOOSE r \in
        {[i \in 1..Len(regions) |->
            [id |-> regionId(doc.uri, i - 1),
             docUri |-> doc.uri,
             region |-> regions[i],
             result |-> compileIDE(regionId(doc.uri, i - 1),
                                   getVirtualGlslxContent(doc.text, regions[i]))]] :
            regions \in {regionsOf(doc.languageId, doc.text)}} : TRUE

\* the number of calls of the Compiler a pass over docs makes
RECURSIVE countCalls(_, _)
countCalls(docs, k) ==
    IF k > Len(docs) THEN 0
    ELSE Len(regionsOf(docs[k].languageId, docs[k].text)) + countCalls(docs, k + 1)

\* the second loop of buildOnce from document k on: an exception leaves the
\* loop with the entries assigned so far
RECURSIVE compileDocs(_, _, _, _, _)
compileDocs(docs, k, calls, oracle, results) ==
    IF k > Len(docs) THEN [results |-> results, threw |-> FALSE]
    ELSE CHOOSE r \in
            {IF oracle.throwAt \in (calls + 1)..(calls + Len(entry))
             THEN [results |-> results, threw |-> TRUE]
             ELSE compileDocs(docs, k + 1, calls + Len(entry), oracle,
                      (docs[k].uri :> entry) @@ results) :
                entry \in {compileRegions(docs[k])}} : TRUE

\* map[uri] || [] of sendDiagnostics: one diagnostic, named by the id of its
\* fragment, for each fragment whose compilation reported one
diagnosticsOf(results, uri) ==
    IF uri \notin DOMAIN results THEN <<>>
    ELSE LET with == SelectSeq(results[uri], LAMBDA x : x.result.diagnostics > 0)
         IN  [i \in 1..Len(with) |-> with[i].id]

\* the messages sendDiagnostics sends: one for each open document
sendDiagnostics(results, docs) ==
    [k \in 1..Len(docs) |->
        [uri |-> docs[k].uri, diagnostics |-> diagnosticsOf(results, docs[k].uri)]]

\* buildOnce: the results it returns, whether reportErrors caught an
\* exception, and the diagnostics it sent
buildOnce(docs, oracle) ==
    CHOOSE r \in
        {[results |-> built.results,
          threw |-> built.threw,
          sent |-> IF built.threw THEN <<>> ELSE sendDiagnostics(built.results, docs)] :
            built \in {compileDocs(docs, 1, 0, oracle, EmptyResults)}} : TRUE

\* what the client shows after the messages of a pass
shownAfter(old, sent) ==
    [u \in Uris |->
        IF \E k \in 1..Len(sent) : sent[k].uri = u
        THEN sent[CHOOSE k \in 1..Len(sent) : sent[k].uri = u].diagnostics
        ELSE old[u]]

(***************************************************************************)
(* fileAccess, the resolver buildOnce gives the Compiler.                  *)
(*                                                                         *)
(* A path is absolute and normalized: the sequence of its segments.  An    *)
(* include text is its segments and whether it begins with a slash.        *)
(***************************************************************************)
\* uriToPath for a URI whose scheme is not file
NullPath == <<"null">>

\* process.cwd()
Cwd == <<"srv">>

\* the segments of a path after a slash each
RECURSIVE joinPath(_)
joinPath(path) ==
    IF path = <<>> THEN "" ELSE "/" \o Head(path) \o joinPath(Tail(path))

\* pathToURI: uri.file(value).toString()
pathToURI(path) == "file://" \o (IF path = <<>> THEN "/" ELSE joinPath(path))

\* path.resolve and path.normalize: segment by segment, .. leaves a directory
RECURSIVE normalize(_, _)
normalize(segs, path) ==
    IF segs = <<>> THEN path
    ELSE normalize(Tail(segs),
                   IF Head(segs) = ".." THEN SubSeq(path, 1, Len(path) - 1)
                   ELSE IF Head(segs) = "." THEN path
                   ELSE Append(path, Head(segs)))

\* path.resolve(from, to) for an absolute normalized from
pathResolve(from, to) ==
    IF to.absolute THEN normalize(to.segs, <<>>) ELSE normalize(to.segs, from)

\* path.dirname
pathDirname(path) == SubSeq(path, 1, Len(path) - 1)

\* the files and directories the include texts are written with
FileNames == {"b.glslx", "c.glslx"}
DirNames == {"lib"}

\* the paths of the files that documents and includes can name
FilePaths == {<<"a.js">>, <<"b.glslx">>, <<"c.glslx">>, <<"lib", "c.glslx">>}

\* the path of the name of the i-th fragment of the document at a path
regionPath(path, i) ==
    Append(pathDirname(path), path[Len(path)] \o "-region-" \o ToString(i))

\* the paths whose URIs the server parses: those of the files and of the
\* names of their fragments
ParsedPaths == FilePaths \cup {regionPath(path, i) : path \in FilePaths, i \in 0..1}

\* uriToPath: the path of a URI of scheme file, null for another scheme
uriToPath(value) ==
    IF \E path \in ParsedPaths : pathToURI(path) = value
    THEN CHOOSE path \in ParsedPaths : pathToURI(path) = value
    ELSE NullPath

\* the docs record of buildOnce: the source and the regions of each open document
parsedDocs(documents) ==
    [uri \in {documents[k].uri : k \in 1..Len(documents)} |->
        CHOOSE parsed \in
            {[source |-> doc.text, regions |-> regionsOf(doc.languageId, doc.text)] :
                doc \in {documents[k] : k \in {j \in 1..Len(documents) :
                                                  documents[j].uri = uri}}} : TRUE]

\* fs.readFileSync(absolutePath, 'utf8'): the disk holds the files that can
\* be read; reading any other path raises
readFileSync(disk, path) ==
    IF path \in DOMAIN disk
    THEN [threw |-> FALSE, contents |-> disk[path]]
    ELSE [threw |-> TRUE, contents |-> <<>>]

\* return null
NullFile == [name |-> "null", contents |-> <<>>]

\* the location an include text names, for the file that includes it
absolutePathOf(includeText, relativeURI) ==
    CHOOSE absolutePath \in
        {IF relativePath # NullPath
         THEN pathResolve(pathDirname(normalize(relativePath, <<>>)), includeText)
         ELSE pathResolve(Cwd, includeText) :
            relativePath \in {uriToPath(relativeURI)}} : TRUE

\* the mutant of inMemory that finds no document
neverInMemory(absoluteURI, docs) == FALSE

\* absoluteURI in docs
inMemory(absoluteURI, docs) == absoluteURI \in DOMAIN docs

\* fileAccess(includeText, relativeURI), with the docs of the pass and the disk
fileAccess(includeText, relativeURI, docs, disk) ==
    CHOOSE file \in
        {IF inMemory(pathToURI(absolutePath), docs)
         THEN [name |-> pathToURI(absolutePath),
               contents |-> docs[pathToURI(absolutePath)].source]
         ELSE CHOOSE fromDisk \in
                {IF read.threw THEN NullFile
                 ELSE [name |-> pathToURI(absolutePath), contents |-> read.contents] :
                    read \in {readFileSync(disk, absolutePath)}} : TRUE :
            absolutePath \in {absolutePathOf(includeText, relativeURI)}} : TRUE

(***************************************************************************)
(* The accessor buildResults and the scheduler buildLater.                 *)
(***************************************************************************)
\* let buildResults = () => ({})
InitialAccessor == [kind |-> "initial", result |-> EmptyResults]

\* buildResults = () => { let result = buildOnce(); ... }
LazyAccessor == [kind |-> "lazy", result |-> EmptyResults]

\* the mutant of CachedAccessor that keeps the closure that builds
recomputingAccessor(result) == [kind |-> "lazy", result |-> result]

\* buildResults = () => result
CachedAccessor(result) == [kind |-> "cached", result |-> result]

\* the mutant of accessorBuilds that builds on every call after the first change
accessorBuildsAlways(accessor) == accessor.kind # "initial"

\* whether a call of buildResults() runs buildOnce
accessorBuilds(accessor) == accessor.kind = "lazy"

NoPass == [ran |-> FALSE, threw |-> FALSE, sent |-> <<>>, uris |-> <<>>]

urisOf(docs) == [k \in 1..Len(docs) |-> docs[k].uri]

NoBurst == [notifications |-> 0, byTimer |-> 0, byAccessor |-> 0, queried |-> FALSE]

NoReply == [to |-> "none", request |-> <<>>, value |-> <<>>]

\* a run of buildOnce, with the Compiler behaving as oracle
RunsPass(oracle) ==
    \E pass \in {buildOnce(openDocuments, oracle)} :
        /\ buildResults' = CachedAccessor(pass.results)
        /\ shown' = shownAfter(shown, pass.sent)
        /\ lastPass' = [ran |-> TRUE, threw |-> pass.threw, sent |-> pass.sent,
                        uris |-> urisOf(openDocuments)]

\* the mutant of clearTimeout that cancels nothing
clearNothing(timers) == timers

\* clearTimeout(timeout): the variable names the timer set last, which is
\* still to fire whenever any timer is, all delays being the same
clearTimeout(timers) == IF timers > 0 THEN timers - 1 ELSE 0

\* whether a timer is still to fire: the scheduler is scheduled, not idle
scheduled == timeout > 0

\* buildLater. A notification that finds no timer begins a burst
buildLater ==
    /\ scheduled => burst.notifications < MaxBurst
    /\ buildResults' = LazyAccessor
    /\ timeout' = clearTimeout(timeout) + 1
    /\ lastPass' = NoPass
    /\ burst' = IF scheduled
                THEN [burst EXCEPT !.notifications = @ + 1]
                ELSE [NoBurst EXCEPT !.notifications = 1]

\* buildResults(), called by a query handler
CallsAccessor ==
    IF accessorBuilds(buildResults)
    THEN /\ \E oracle \in Oracles(countCalls(openDocuments, 1)) :
                RunsPass(oracle)
         /\ burst' = [burst EXCEPT !.byAccessor = @ + 1,
                                   !.queried = @ \/ scheduled]
    ELSE /\ burst' = [burst EXCEPT !.queried = @ \/ scheduled]
         /\ UNCHANGED <<buildResults, shown, lastPass>>

(***************************************************************************)
(* The position router.                                                    *)
(***************************************************************************)
isPositionInsideRegion(region, offset) ==
    region.start < offset /\ region.end > offset

isOpen(uri) == \E k \in 1..Len(openDocuments) : openDocuments[k].uri = uri

\* openDocuments.get(uri), for an open document
getDocument(uri) ==
    openDocuments[CHOOSE k \in 1..Len(openDocuments) : openDocuments[k].uri = uri]

\* result?.find(...): the first fragment whose region holds the offset, as a
\* sequence of one element, or the empty sequence for undefined
find(results, uri, offset) ==
    IF uri \notin DOMAIN results THEN <<>>
    ELSE LET hits == SelectSeq(results[uri],
                         LAMBDA x : isPositionInsideRegion(x.region, offset))
         IN  IF hits = <<>> THEN <<>> ELSE <<hits[1]>>

\* isPositionInsideRegion of src/embeddedSupport.ts: both comparisons are
\* the other way round
embeddedSupportIsPositionInsideRegion(region, offset) ==
    region.start > offset /\ region.end < offset

\* result?.find(...) of getResult, with that test
embeddedSupportFind(results, uri, offset) ==
    IF uri \notin DOMAIN results THEN <<>>
    ELSE LET hits == SelectSeq(results[uri],
                         LAMBDA x : embeddedSupportIsPositionInsideRegion(x.region, offset))
         IN  IF hits = <<>> THEN <<>> ELSE <<hits[1]>>

(***************************************************************************)
(* The handlers.                                                           *)
(***************************************************************************)
Init ==
    /\ openDocuments = <<>>
    /\ buildResults = InitialAccessor
    /\ timeout = 0
    /\ shown = [u \in Uris |-> <<>>]
    /\ lastPass = NoPass
    /\ burst = NoBurst
    /\ reply = NoReply
    /\ input = <<>>
    /\ output = <<>>
    /\ pc = "server"

\* connection.onInitialize: the first message of the client
Initialize ==
    /\ buildResults.kind = "initial"
    /\ buildLater
    /\ reply' = NoReply
    /\ UNCHANGED <<openDocuments, shown, pureVars>>

\* the store opens a document and fires onDidChangeContent
DidOpen(uri, text) ==
    /\ ~isOpen(uri)
    /\ openDocuments' = Append(openDocuments,
                            [uri |-> uri, languageId |-> languageIdOf(uri), text |-> text])
    /\ buildLater
    /\ reply' = NoReply
    /\ UNCHANGED <<shown, pureVars>>

\* the store updates an open document and fires onDidChangeContent
DidChangeContent(uri, text) ==
    /\ isOpen(uri)
    /\ getDocument(uri).text # text
    /\ openDocuments' = [k \in 1..Len(openDocuments) |->
                            IF openDocuments[k].uri = uri
                            THEN [openDocuments[k] EXCEPT !.text = text]
                            ELSE openDocuments[k]]
    /\ buildLater
    /\ reply' = NoReply
    /\ UNCHANGED <<shown, pureVars>>

\* the store closes a document: no handler of the server is subscribed
DidClose(uri) ==
    /\ isOpen(uri)
    /\ openDocuments' = SelectSeq(openDocuments, LAMBDA d : d.uri # uri)
    /\ reply' = NoReply
    /\ UNCHANGED <<buildResults, timeout, shown, lastPass, burst, pureVars>>

\* connection.onDidChangeWatchedFiles
DidChangeWatchedFiles ==
    /\ buildLater
    /\ reply' = NoReply
    /\ UNCHANGED <<openDocuments, shown, pureVars>>

\* the timer of buildLater fires and calls the closure it was given
TimerExpiry ==
    /\ timeout > 0
    /\ \E oracle \in Oracles(countCalls(openDocuments, 1)) : RunsPass(oracle)
    /\ timeout' = timeout - 1
    /\ burst' = [burst EXCEPT !.byTimer = @ + 1]
    /\ reply' = NoReply
    /\ UNCHANGED <<openDocuments, pureVars>>

\* the mutant of returnsEarly that goes on without a document
neverReturnsEarly(uri) == FALSE

\* if (!doc) return
returnsEarly(uri) == ~isOpen(uri)

\* getResult, as the position handlers call it: the request is a URI and the
\* offset of its position, which for an open document lies in the text
GetResult(uri, offset) ==
    /\ isOpen(uri) => offset <= Len(getDocument(uri).text)
    /\ IF returnsEarly(uri)
       THEN /\ reply' = [to |-> "getResult", request |-> <<uri, offset>>,
                         value |-> <<>>]
            /\ UNCHANGED <<buildResults, shown, lastPass, burst>>
       ELSE /\ CallsAccessor
            /\ reply' = [to |-> "getResult", request |-> <<uri, offset>>,
                         value |-> find(buildResults'.result, uri, offset)]
    /\ UNCHANGED <<openDocuments, timeout, pureVars>>

\* computeDocumentSymbols: the fragments whose symbols it lists
ComputeDocumentSymbols(uri) ==
    /\ CallsAccessor
    /\ reply' = [to |-> "computeDocumentSymbols", request |-> <<uri>>,
                 value |-> IF uri \in DOMAIN buildResults'.result
                           THEN buildResults'.result[uri] ELSE <<>>]
    /\ UNCHANGED <<openDocuments, timeout, pureVars>>

\* the offsets of the longest text
MaxOffset == Len(TextTwo)

Next ==
    \/ Initialize
    \/ \E uri \in Uris : \E text \in DocTexts(uri) : DidOpen(uri, text)
    \/ \E uri \in Uris : \E text \in DocTexts(uri) : DidChangeContent(uri, text)
    \/ \E uri \in Uris : DidClose(uri)
    \/ DidChangeWatchedFiles
    \/ TimerExpiry
    \/ \E uri \in Uris, offset \in 0..MaxOffset : GetResult(uri, offset)
    \/ \E uri \in Uris : ComputeDocumentSymbols(uri)

Spec == Init /\ [][Next]_vars

\* the timer of buildLater, unless it is cancelled, fires after its delay:
\* an expiry that stays possible happens
LiveSpec == Init /\ [][Next]_vars /\ WF_vars(TimerExpiry)

(***************************************************************************)
(* The scanner alone: regionsOf applied to a text and a languageId.        *)
(***************************************************************************)
\* the tag tokens that the scanned texts are written with, one by text
TagVariants ==
    {<<"g", "l", "s", "l">>, <<"v", "e", "r", "t">>, <<"f", "r", "a", "g">>,
     <<"/", "*", "g", "l", "s", "l", "*", "/">>,
     <<"/", "*", " ", "g", "l", "s", "l", " ", "*", "/">>,
     <<"/", "*", "g", "l", "s", "l">>}

\* the segments of a scanned text: a tag token, a tick, a letter, a space
Segments == {"TAG", Tick, "x", " "}

RECURSIVE expand(_, _)
expand(segs, tag) ==
    IF segs = <<>> THEN <<>>
    ELSE (IF Head(segs) = "TAG" THEN tag ELSE <<Head(segs)>>) \o expand(Tail(segs), tag)

ScanTexts ==
    {expand(segs, tag) :
        segs \in UNION {[1..n -> Segments] : n \in 0..MaxSegs}, tag \in TagVariants}

LanguageIds == {"glslx", "javascript"}

ScanInit ==
    /\ openDocuments = <<>>
    /\ buildResults = InitialAccessor
    /\ timeout = 0
    /\ shown = [u \in Uris |-> <<>>]
    /\ lastPass = NoPass
    /\ burst = NoBurst
    /\ reply = NoReply
    /\ input \in [documentText : ScanTexts, languageId : LanguageIds]
    /\ output = <<>>
    /\ pc = "scan"

Scan ==
    /\ pc = "scan"
    /\ output' = regionsOf(input.languageId, input.documentText)
    /\ pc' = "scanned"
    /\ UNCHANGED <<serverVars, input>>

ScanNext == Scan

ScanSpec == ScanInit /\ [][ScanNext]_vars

(***************************************************************************)
(* The builder alone: both getVirtualGlslxContent applied to a text and a  *)
(* region (any two offsets, in the text or not).                           *)
(***************************************************************************)
ProjChars == {"x", "\n", "\r"}

ProjTexts == UNION {[1..n -> ProjChars] : n \in 0..MaxProjLen}

ProjOffsets == (0 - 1)..(MaxProjLen + 1)

ProjInit ==
    /\ openDocuments = <<>>
    /\ buildResults = InitialAccessor
    /\ timeout = 0
    /\ shown = [u \in Uris |-> <<>>]
    /\ lastPass = NoPass
    /\ burst = NoBurst
    /\ reply = NoReply
    /\ input \in [documentText : ProjTexts,
                  region : [start : ProjOffsets, end : ProjOffsets]]
    /\ output = <<>>
    /\ pc = "project"

Project ==
    /\ pc = "project"
    /\ output' = [content |-> getVirtualGlslxContent(input.documentText, input.region),
                  embedded |-> embeddedSupportVirtualContent(input.documentText,
                                                             input.region)]
    /\ pc' = "projected"
    /\ UNCHANGED <<serverVars, input>>

ProjNext == Project

ProjSpec == ProjInit /\ [][ProjNext]_vars

(***************************************************************************)
(* The resolver alone: fileAccess applied to an include text and the name  *)
(* of the file that includes it, with some documents open and some files   *)
(* on the disk.                                                            *)
(***************************************************************************)
UriLib == "file:///lib/c.glslx"

\* the segments of the include texts
IncludeSegs == FileNames \cup DirNames \cup {".."}

IncludeTexts ==
    [absolute : BOOLEAN,
     segs : UNION {[1..n -> IncludeSegs] : n \in 1..MaxIncludeSegs}]

\* the names the Compiler gives for the including file: the ids of fragments,
\* the name fileAccess gave an included file, the id of a fragment of a
\* document that is not a file
RelativeUris ==
    {regionId(UriJs, 0), regionId(UriGlslx, 0), regionId(UriLib, 1), UriLib,
     regionId("untitled:Untitled-1", 0)}

\* the documents that are open besides the including one
FileDocuments ==
    {SelectSeq(<<[uri |-> UriGlslx, languageId |-> "glslx", text |-> TextShader],
                 [uri |-> UriLib, languageId |-> "glslx", text |-> TextPlain]>>,
               LAMBDA doc : doc.uri \in open) : open \in SUBSET {UriGlslx, UriLib}}

\* what the files on the disk hold
TextOnDisk == <<"d">>

\* the disks: the files that can be read, and their content
Disks ==
    UNION {[present -> {TextOnDisk}] :
              present \in SUBSET {<<"b.glslx">>, <<"c.glslx">>, <<"lib", "c.glslx">>}}

FileInit ==
    /\ openDocuments \in FileDocuments
    /\ buildResults = InitialAccessor
    /\ timeout = 0
    /\ shown = [u \in Uris |-> <<>>]
    /\ lastPass = NoPass
    /\ burst = NoBurst
    /\ reply = NoReply
    /\ input \in [includeText : IncludeTexts, relativeURI : RelativeUris, disk : Disks]
    /\ output = <<>>
    /\ pc = "resolve"

Resolve ==
    /\ pc = "resolve"
    /\ output' = fileAccess(input.includeText, input.relativeURI,
                            parsedDocs(openDocuments), input.disk)
    /\ pc' = "resolved"
    /\ UNCHANGED <<serverVars, input>>

FileNext == Resolve

FileSpec == FileInit /\ [][FileNext]_vars

(***************************************************************************)
(* The fragments of one document: the map of buildOnce applied to a        *)
(* JavaScript document, and the router applied to what it returns.         *)
(***************************************************************************)
\* the segments of a compiled text: the tag glsl, a tick, a letter, a line feed
FragSegments == {"TAG", Tick, "x", "\n"}

\* the texts of at most maxSegs segments
FragTexts(maxSegs) ==
    {expand(segs, <<"g", "l", "s", "l">>) :
        segs \in UNION {[1..n -> FragSegments] : n \in 0..maxSegs}}

FragInit ==
    /\ openDocuments \in
          {<<[uri |-> UriJs, languageId |-> languageIdOf(UriJs), text |-> text]>> :
              text \in FragTexts(MaxFragSegs)}
    /\ buildResults = InitialAccessor
    /\ timeout = 0
    /\ shown = [u \in Uris |-> <<>>]
    /\ lastPass = NoPass
    /\ burst = NoBurst
    /\ reply = NoReply
    /\ input = <<>>
    /\ output = <<>>
    /\ pc = "compile"

\* results[doc.uri] = glslxDoc.regions.map(...)
CompileDocument ==
    /\ pc = "compile"
    /\ output' = compileRegions(openDocuments[1])
    /\ pc' = "compiled"
    /\ UNCHANGED <<serverVars, input>>

FragNext == CompileDocument

FragSpec == FragInit /\ [][FragNext]_vars

(***************************************************************************)
(* The build scheduler and cache: claims C1 to C4, under Spec.             *)
(***************************************************************************)

\* C1, as stated: the accessor never runs a rebuild pass itself, in no
\* reachable state, the scheduled state included: zero passes were run by
\* calls of the accessor.
C1_AccessorNeverBuilds == burst.byAccessor = 0

\* C1, amended: a call of the accessor runs a rebuild pass only in the
\* scheduled state and only while no pass has run since the latest change
\* notification (buildResults is then the lazy closure); it then runs exactly
\* one pass and leaves the result cached.  In the idle state, and once a pass
\* has run, calls of the accessor run no pass.
C1_AccessorBuildsOnlyWhenLazy ==
    [][burst'.byAccessor > burst.byAccessor =>
            /\ scheduled
            /\ buildResults.kind = "lazy"
            /\ burst'.byAccessor = burst.byAccessor + 1
            /\ buildResults'.kind = "cached"
            /\ lastPass'.ran]_vars

\* C1, witness: a query handler has called the accessor in the scheduled
\* state and the call ran a pass, the timer still being set.
C1_Witness ==
    /\ reply.to = "getResult"
    /\ scheduled
    /\ burst.byAccessor = 1
    /\ lastPass.ran

\* C2, as stated: a burst of N >= 1 change notifications, once its timer has
\* fired, has run exactly one rebuild pass.
C2_OnePassPerBurst ==
    (~scheduled /\ burst.notifications >= 1) =>
        burst.byTimer + burst.byAccessor = 1

\* C2, amended: a burst of N >= 1 change notifications makes exactly one timer
\* fire, and that expiry runs exactly one rebuild pass; it is the only pass of
\* the burst when no query handler calls the accessor while the timer is set.
\* Calls of the accessor in the scheduled state run further passes, at most
\* one for each notification of the burst.
C2_OneTimerPassPerBurst ==
    /\ scheduled => (timeout = 1 /\ burst.byTimer = 0)
    /\ (~scheduled /\ burst.notifications >= 1) => burst.byTimer = 1
    /\ burst.byAccessor <= burst.notifications
    /\ ~burst.queried => burst.byAccessor = 0

\* C2, witness: a burst of two or more notifications has ended, no accessor
\* call came in between, and one pass has run.
C2_Witness ==
    /\ ~scheduled
    /\ burst.notifications >= 2
    /\ ~burst.queried
    /\ burst.byTimer + burst.byAccessor = 1
    /\ lastPass.ran

\* C3, as stated: after a rebuild pass during which the Compiler raised, the
\* cached BuildResult is empty: the accessor holds no fragment for any URI,
\* and locate finds none at any offset.
C3_FailedPassCachesNothing ==
    (lastPass.ran /\ lastPass.threw) =>
        /\ buildResults.kind = "cached"
        /\ \A uri \in Uris :
              uri \in DOMAIN buildResults.result => buildResults.result[uri] = <<>>
        /\ \A uri \in Uris, offset \in 0..MaxOffset :
              find(buildResults.result, uri, offset) = <<>>

\* C4, as stated: a rebuild pass during which the Compiler raised still
\* publishes the empty diagnostic list for every open document, so that the
\* client shows no diagnostics of an earlier pass for them.
C4_FailedPassClearsDiagnostics ==
    (lastPass.ran /\ lastPass.threw) =>
        \A k \in 1..Len(lastPass.uris) :
            /\ \E m \in 1..Len(lastPass.sent) :
                  /\ lastPass.sent[m].uri = lastPass.uris[k]
                  /\ lastPass.sent[m].diagnostics = <<>>
            /\ shown[lastPass.uris[k]] = <<>>

(***************************************************************************)
(* The region scanner: claims C5 to C8, under ScanSpec.                    *)
(***************************************************************************)
scanned == pc = "scanned"

tagged == input.languageId # "glslx"

\* C5, as stated: every span the Scanner produces for a text T, in either
\* mode, has 0 <= start < end <= length(T), the empty text included.
C5_SpansWithinTextNonEmpty ==
    scanned =>
        \A i \in 1..Len(output) :
            /\ 0 <= output[i].start
            /\ output[i].start < output[i].end
            /\ output[i].end <= Len(input.documentText)

\* C5, amended: every span has 0 <= start <= end <= length(T), and
\* start < end for every span of the tagged-literal mode and for the
\* whole-document span of a text that is not empty; the whole-document span
\* of the empty text is {0, 0}.
C5_SpansWithinText ==
    scanned =>
        \A i \in 1..Len(output) :
            /\ 0 <= output[i].start
            /\ output[i].end <= Len(input.documentText)
            /\ \/ output[i].start < output[i].end
               \/ /\ ~tagged
                  /\ input.documentText = <<>>
                  /\ output = <<[start |-> 0, end |-> 0]>>

\* C5, witness: getGlslxRegions has returned two spans or more for a text.
C5_Witness == scanned /\ tagged /\ Len(output) >= 2

\* C6: the spans getGlslxRegions returns are sorted ascending by start and
\* pairwise non-overlapping: an earlier span ends at or before the start of
\* every later one.
C6_SpansSortedDisjoint ==
    (scanned /\ tagged) =>
        \A i, j \in 1..Len(output) :
            i < j => /\ output[i].start < output[j].start
                     /\ output[i].end <= output[j].start

\* whether a match of tagPattern ends just before offset t
TagEndsAt(T, t) == \E p \in 0..(Len(T) - 1) : TagLenAt(T, p) > 0 /\ p + TagLenAt(T, p) = t

\* C6, witness: a tag token stands inside a fragment, directly before the
\* tick that closes it, and that tick opens a second span.
C6_Witness ==
    /\ scanned /\ tagged
    /\ Len(output) >= 2
    /\ output[2].start - 1 = output[1].end
    /\ TagEndsAt(input.documentText, output[1].end)

\* C7, as stated: each span of getGlslxRegions begins just after a tick, ends
\* on a tick, and that tick is the first one at or after start, so that no
\* tick lies inside the span.
C7_SpanEndsAtFirstTick ==
    (scanned /\ tagged) =>
        \A i \in 1..Len(output) :
            /\ CharAt(input.documentText, output[i].start - 1) = Tick
            /\ CharAt(input.documentText, output[i].end) = Tick
            /\ \A k \in output[i].start..(output[i].end - 1) :
                  CharAt(input.documentText, k) # Tick

\* C8, as stated: each span of getGlslxRegions is opened by a tick that a tag
\* token immediately precedes and that a later tick closes, and the tick that
\* closes one fragment never opens another span.
C8_SpanOpenedByTaggedTick ==
    (scanned /\ tagged) =>
        \A i \in 1..Len(output) :
            /\ CharAt(input.documentText, output[i].start - 1) = Tick
            /\ TagEndsAt(input.documentText, output[i].start - 1)
            /\ output[i].end >= output[i].start
            /\ CharAt(input.documentText, output[i].end) = Tick
            /\ \A j \in 1..Len(output) : output[j].end # output[i].start - 1

(***************************************************************************)
(* The virtual content builder: claims C9 and C10, under ProjSpec.         *)
(***************************************************************************)
projected == pc = "projected"

\* the region is a span of the text
inText == /\ 0 <= input.region.start
          /\ input.region.start < input.region.end
          /\ input.region.end <= Len(input.documentText)

inRegion(i) == input.region.start <= i /\ i < input.region.end

\* the region lies in the text
withinText == /\ 0 <= input.region.start
              /\ input.region.start <= input.region.end
              /\ input.region.end <= Len(input.documentText)

\* C9, as stated, for the spans that lie in the text: the projection of a
\* text, by either getVirtualGlslxContent, is as long as the text.
C9_ProjectionKeepsLength ==
    (projected /\ withinText) =>
        /\ Len(output.content) = Len(input.documentText)
        /\ Len(output.embedded) = Len(input.documentText)

\* the line-break characters of a text: line feed and carriage return
LineBreaks == {"\n", "\r"}

\* C10, as stated: for a span of the text, the projection holds the character
\* of the text at every offset of the span, and at every other offset a space,
\* unless the text holds a line-break character there, which is kept.
C10_ProjectionKeepsLineBreaks ==
    (projected /\ inText) =>
        /\ Len(output.content) = Len(input.documentText)
        /\ \A i \in 0..(Len(input.documentText) - 1) :
              CharAt(output.content, i) =
                  IF inRegion(i) \/ CharAt(input.documentText, i) \in LineBreaks
                  THEN CharAt(input.documentText, i)
                  ELSE " "

\* C10, amended: for a span of the text, the projection holds the character
\* of the text at every offset of the span, and at every other offset a space,
\* unless the text holds a line feed there, which is kept; a carriage return
\* outside the span becomes a space.
C10_ProjectionKeepsLineFeeds ==
    (projected /\ inText) =>
        /\ Len(output.content) = Len(input.documentText)
        /\ \A i \in 0..(Len(input.documentText) - 1) :
              CharAt(output.content, i) =
                  IF inRegion(i) \/ CharAt(input.documentText, i) = "\n"
                  THEN CharAt(input.documentText, i)
                  ELSE " "

\* C10, witness: a text with a line feed and a carriage return outside the
\* span has been projected.
C10_Witness ==
    /\ projected /\ inText
    /\ \E i, j \in 0..(Len(input.documentText) - 1) :
          /\ ~inRegion(i) /\ CharAt(input.documentText, i) = "\n"
          /\ ~inRegion(j) /\ CharAt(input.documentText, j) = "\r"
          /\ CharAt(output.content, i) = "\n"
          /\ CharAt(output.content, j) = " "

(***************************************************************************)
(* The position router: claim C11, under Spec.                             *)
(***************************************************************************)
cached == buildResults.kind = "cached"

\* the fragments the cache holds for a document
cachedFragments(uri) ==
    IF uri \in DOMAIN buildResults.result THEN buildResults.result[uri] ELSE <<>>

\* C11, as stated: for every fragment with span S in the cached result of an
\* open document, the router, with the containment test of either
\* embeddedSupport module, returns none at offset S.start and at offset S.end,
\* and returns the fragment owning S at offset S.start + 1 whenever
\* S.end > S.start + 1.
C11_RouterStrictInterior ==
    \A uri \in Uris :
        (cached /\ isOpen(uri)) =>
            \A i \in 1..Len(cachedFragments(uri)) :
                \E fragment \in {cachedFragments(uri)[i]} :
                    /\ find(buildResults.result, uri, fragment.region.start) = <<>>
                    /\ find(buildResults.result, uri, fragment.region.end) = <<>>
                    /\ embeddedSupportFind(buildResults.result, uri,
                                           fragment.region.start) = <<>>
                    /\ embeddedSupportFind(buildResults.result, uri,
                                           fragment.region.end) = <<>>
                    /\ fragment.region.end > fragment.region.start + 1 =>
                          /\ find(buildResults.result, uri,
                                  fragment.region.start + 1) = <<fragment>>
                          /\ embeddedSupportFind(buildResults.result, uri,
                                                 fragment.region.start + 1) = <<fragment>>

(***************************************************************************)
(* The build scheduler and cache: claims C12 to C15, under Spec.           *)
(***************************************************************************)
\* a step is an expiry of the timer
timerFires == burst'.byTimer = burst.byTimer + 1

\* the number of rebuild passes of the burst
passes == burst.byTimer + burst.byAccessor

\* C12: an expiry of the timer runs one rebuild pass and leaves the scheduler
\* idle, with the accessor returning the BuildResult of that pass; from then
\* until the next change notification no rebuild pass runs, the accessor is
\* left as it is, and a call of it returns the fragments of that BuildResult.
C12_ExpiryCachesUntilNextChange ==
    [][/\ timerFires =>
            /\ lastPass'.ran
            /\ passes' = passes + 1
            /\ ~scheduled'
            /\ buildResults'.kind = "cached"
            /\ \E oracle \in Oracles(countCalls(openDocuments, 1)) :
                  buildResults'.result = buildOnce(openDocuments, oracle).results
       /\ (~scheduled /\ burst.byTimer = 1 /\ ~scheduled') =>
            /\ passes' = passes
            /\ lastPass' = lastPass
            /\ buildResults' = buildResults
            /\ reply'.to = "computeDocumentSymbols" =>
                  \E uri \in Uris : reply'.value = cachedFragments(uri)]_vars

\* C12, witness: after an expiry of the timer, and before any other change
\* notification, a query handler has called the accessor and was given
\* fragments of the cached BuildResult.
C12_Witness ==
    /\ ~scheduled
    /\ burst.byTimer = 1
    /\ cached
    /\ reply.to = "computeDocumentSymbols"
    /\ reply.value # <<>>
    /\ \E uri \in Uris : reply.value = cachedFragments(uri)

\* C13: at most one timer is outstanding, that is set and neither fired nor
\* cancelled; of the N timers the N notifications of a burst set, N - 1 were
\* cancelled and ran no rebuild: the timers that fired and the one
\* outstanding are one in all.
C13_OneTimerOutstanding ==
    /\ timeout \in {0, 1}
    /\ burst.byTimer \in {0, 1}
    /\ timeout + burst.byTimer = IF burst.notifications >= 1 THEN 1 ELSE 0

\* C13, witness: a notification has cancelled the timer of an earlier one and
\* set its own, and a query has been answered in between or since.
C13_Witness ==
    /\ burst.notifications >= 2
    /\ burst.queried
    /\ timeout = 1
    /\ burst.byTimer = 0

\* the open documents, as a set of URIs
openUris == {openDocuments[k].uri : k \in 1..Len(openDocuments)}

\* the messages of a pass that name a document
sentFor(pass, uri) == {m \in 1..Len(pass.sent) : pass.sent[m].uri = uri}

\* C14, as stated: every rebuild pass that runs on an expiry of the timer
\* publishes exactly one diagnostic list for each open document, the empty
\* list for a document that has no fragment or whose fragments have no
\* diagnostic, and the client then shows that list.
C14_TimerPassPublishesForEachDocument ==
    [][timerFires =>
            /\ lastPass'.ran
            /\ Len(lastPass'.sent) = Len(openDocuments)
            /\ \A k \in 1..Len(openDocuments) :
                  \E doc \in {openDocuments[k]} :
                      /\ Cardinality(sentFor(lastPass', doc.uri)) = 1
                      /\ \A m \in sentFor(lastPass', doc.uri) :
                            /\ shown'[doc.uri] = lastPass'.sent[m].diagnostics
                            /\ (\A i \in 1..Len(compileRegions(doc)) :
                                    compileRegions(doc)[i].result.diagnostics = 0)
                                  => lastPass'.sent[m].diagnostics = <<>>]_vars

\* C15, as stated: the BuildResult the accessor holds for its readers is the
\* empty result of the start or the complete output of one rebuild pass: it
\* has one entry for each document that was open at that pass, never entries
\* for only some of them.
C15_CachedResultHoldsWholePass ==
    /\ buildResults.kind = "initial" => buildResults.result = EmptyResults
    /\ cached =>
          /\ lastPass.ran
          /\ DOMAIN buildResults.result =
                {lastPass.uris[k] : k \in 1..Len(lastPass.uris)}

(***************************************************************************)
(* The fragments of a BuildResult: claim C16, under Spec.                  *)
(***************************************************************************)
\* the fragments of the cached BuildResult, each named by its URI and index
cachedPlaces ==
    UNION {{<<uri, i>> : i \in 1..Len(buildResults.result[uri])} :
              uri \in DOMAIN buildResults.result}

\* C16: in the BuildResult of a rebuild pass in which the Compiler did not
\* raise, the entry of each open document has one fragment for each span of
\* the document, in the order of the spans: the i-th fragment has the i-th
\* span as its region, the URI of the document as its docUri, and as its id
\* the URI followed by -region- and the index; no two fragments of the
\* BuildResult have the same id.
C16_OneFragmentPerSpan ==
    (cached /\ ~lastPass.threw) =>
        /\ \A k \in 1..Len(openDocuments) :
              \E doc \in {openDocuments[k]} :
              \E spans \in {regionsOf(doc.languageId, doc.text)} :
                  /\ doc.uri \in DOMAIN buildResults.result
                  /\ Len(buildResults.result[doc.uri]) = Len(spans)
                  /\ \A i \in 1..Len(spans) :
                        \E fragment \in {buildResults.result[doc.uri][i]} :
                            /\ fragment.region = spans[i]
                            /\ fragment.docUri = doc.uri
                            /\ fragment.id = doc.uri \o "-region-" \o ToString(i - 1)
        /\ \A p, q \in cachedPlaces :
              p # q => buildResults.result[p[1]][p[2]].id #
                       buildResults.result[q[1]][q[2]].id

\* C16, witness: a pass without exception has built the results of two open
\* documents, one of them with two spans.
C16_Witness ==
    /\ cached /\ ~lastPass.threw
    /\ Len(openDocuments) = 2
    /\ \A k \in 1..Len(openDocuments) :
          openDocuments[k].uri \in DOMAIN buildResults.result
    /\ \E uri \in DOMAIN buildResults.result :
          Len(buildResults.result[uri]) = 2

(***************************************************************************)
(* The resolver: claim C17, under FileSpec.                                *)
(***************************************************************************)
resolved == pc = "resolved"

\* the location the include text of the input names
location == absolutePathOf(input.includeText, input.relativeURI)

\* the open documents whose URI is that of a location
openAt(path) == {k \in 1..Len(openDocuments) : openDocuments[k].uri = pathToURI(path)}

\* C17: when the location an include text resolves to is the URI of an open
\* document, fileAccess returns the whole source of that document, whatever
\* the disk holds at the location; only otherwise does it read the disk, and
\* it then returns the content read, or null when the read fails.
C17_InMemoryFirst ==
    resolved =>
        /\ \A k \in openAt(location) :
              output = [name |-> openDocuments[k].uri,
                        contents |-> openDocuments[k].text]
        /\ openAt(location) = {} =>
              IF location \in DOMAIN input.disk
              THEN output = [name |-> pathToURI(location),
                             contents |-> input.disk[location]]
              ELSE output = NullFile

\* C17, witness: the location is that of an open document and of a file on
\* the disk with another content, and the source of the document was returned.
C17_Witness ==
    /\ resolved
    /\ openAt(location) # {}
    /\ location \in DOMAIN input.disk
    /\ \A k \in openAt(location) :
          /\ input.disk[location] # openDocuments[k].text
          /\ output.contents = openDocuments[k].text

(***************************************************************************)
(* Sibling fragments: claim C18, under FragSpec.                           *)
(***************************************************************************)
compiled == pc = "compiled"

\* the offsets whose characters the content of a fragment takes from the text
offsetsOf(region) == region.start..(region.end - 1)

\* the offsets strictly inside a region
interiorOf(region) == (region.start + 1)..(region.end - 1)

\* C18: for two distinct fragments of a document, the virtual content
\* compiled for the one holds only spaces and line feeds at the offsets of
\* the span of the other, and a query at an offset strictly inside the span
\* of the one is routed to that fragment, the span of the other not holding
\* the offset.
C18_SiblingsIndependent ==
    compiled =>
        \A i, j \in 1..Len(output) :
            i # j =>
                /\ \A offset \in offsetsOf(output[j].region) :
                      CharAt(output[i].result.contents, offset) \in {" ", "\n"}
                /\ \A offset \in interiorOf(output[i].region) :
                      /\ find((UriJs :> output), UriJs, offset) = <<output[i]>>
                      /\ ~isPositionInsideRegion(output[j].region, offset)

\* C18, witness: a document has two fragments, the second with a letter and
\* a line feed in its span, which the content of the first shows as a space
\* and a line feed; both spans have offsets strictly inside.
C18_Witness ==
    /\ compiled
    /\ Len(output) = 2
    /\ interiorOf(output[1].region) # {}
    /\ interiorOf(output[2].region) # {}
    /\ \E o1, o2 \in offsetsOf(output[2].region) :
          /\ CharAt(openDocuments[1].text, o1) = "x"
          /\ CharAt(output[1].result.contents, o1) = " "
          /\ CharAt(openDocuments[1].text, o2) = "\n"
          /\ CharAt(output[1].result.contents, o2) = "\n"

(***************************************************************************)
(* The cache after the events of the client: claims C19 and C20.           *)
(***************************************************************************)
\* the entry of each open document is the one a pass computes from its text
openEntriesCurrent ==
    \A k \in 1..Len(openDocuments) :
        /\ openDocuments[k].uri \in DOMAIN buildResults.result
        /\ buildResults.result[openDocuments[k].uri] = compileRegions(openDocuments[k])

\* C19, as stated: whenever the scheduler is idle and the latest rebuild pass
\* raised no exception, the cached BuildResult is current: its URIs are those
\* of the open documents, and each entry was computed from the text the
\* document has now; after open, change, close and watched-file events alike.
C19_IdleCacheCurrent ==
    (~scheduled /\ lastPass.ran /\ ~lastPass.threw) =>
        /\ cached
        /\ DOMAIN buildResults.result = openUris
        /\ openEntriesCurrent

\* the client shows, for each open document, the diagnostics of its text
shownCurrent ==
    \A k \in 1..Len(openDocuments) :
        shown[openDocuments[k].uri] =
            diagnosticsOf((openDocuments[k].uri :> compileRegions(openDocuments[k])),
                          openDocuments[k].uri)

\* C20, as stated, under LiveSpec: after a change notification, the timer
\* being fair, a rebuild pass eventually runs and leaves the scheduler idle
\* with the cached BuildResult and the published diagnostics computed from
\* the texts the documents then have.
C20_DebounceSettles ==
    scheduled ~> (/\ ~scheduled
                  /\ lastPass.ran
                  /\ cached
                  /\ DOMAIN buildResults.result = openUris
                  /\ openEntriesCurrent
                  /\ shownCurrent)

(***************************************************************************)
(* The answers of getResult: claim C21, under Spec.                        *)
(***************************************************************************)
\* whether a span of the cached fragments of a document strictly holds an offset
strictlyInsideSome(uri, offset) ==
    \E i \in 1..Len(cachedFragments(uri)) :
        /\ cachedFragments(uri)[i].region.start < offset
        /\ offset < cachedFragments(uri)[i].region.end

\* C21: getResult returns none whenever the URI of the request is not that of
\* an open document, even when the cached BuildResult still holds fragments
\* for it whose span holds the offset; and it returns none when the cache has
\* no entry for the URI or no cached span strictly holds the offset, with the
\* containment test of either embeddedSupport module.
C21_LocateNone ==
    reply.to = "getResult" =>
        \E uri \in {reply.request[1]} :
        \E offset \in {reply.request[2]} :
            /\ ~isOpen(uri) => reply.value = <<>>
            /\ uri \notin DOMAIN buildResults.result => reply.value = <<>>
            /\ ~strictlyInsideSome(uri, offset) =>
                  /\ reply.value = <<>>
                  /\ embeddedSupportFind(buildResults.result, uri, offset) = <<>>

\* C21, witness: getResult has returned none for a document that was closed
\* after a pass, at an offset that a span of its cached fragments strictly
\* holds.
C21_Witness ==
    /\ reply.to = "getResult"
    /\ ~isOpen(reply.request[1])
    /\ cached
    /\ strictlyInsideSome(reply.request[1], reply.request[2])
    /\ reply.value = <<>>

====
